---------------------------- MODULE Spec2Model ----------------------------
(***************************************************************************)
(* Model of the activity dashboard of src/script.js: the page-load         *)
(* sequence initializeDashboard, the aggregation getActivitySummary, the   *)
(* three render targets (stats panel, member table, per-member timeline)   *)
(* and the user-interface handlers.                                        *)
(*                                                                         *)
(* Time is in milliseconds since the epoch, as Date.now() and the parsed   *)
(* snapshot timestamps are; last_action_timestamp is in epoch seconds, as  *)
(* in the data.  Strings that are searched (names, the search box) are     *)
(* sequences of one-character strings.                                     *)
(***************************************************************************)
EXTENDS Integers, Sequences, FiniteSets

VARIABLES
    pc,              \* position of initializeDashboard
    activityFetch,   \* fetch('data/activity.json'): idle, pending, ok, notok, threw
    membersFetch,    \* fetch('data/members.json'):  idle, pending, ok, notok, threw
    activityJson,    \* activityResponse.json(): idle, pending, parsed, threw
    membersJson,     \* membersResponse.json():  idle, pending, parsed, threw
    activityFile,    \* what data/activity.json holds on the server
    membersFile,     \* what data/members.json holds on the server
    activityData,    \* global activityData
    membersData,     \* global membersData
    now,             \* the wall clock, Date.now()
    tz,              \* offset of local time from UTC, in ms
    timeRange,       \* value of the #timeRange control
    searchBox,       \* value of the #searchBox control
    summary,         \* the summary renderDashboard last computed
    membersTable,    \* contents of #membersTable
    statsPanel,      \* contents of .summary and #lastUpdated
    timeline,        \* contents of #timeline
    memberName,      \* contents of #memberName
    detailUser,      \* userId of the last showActivity call (NoUser: none yet)
    detailHidden     \* #activityDetail has class hidden

vars == << pc, activityFetch, membersFetch, activityJson, membersJson,
           activityFile, membersFile, activityData, membersData, now, tz,
           timeRange, searchBox, summary, membersTable, statsPanel,
           timeline, memberName, detailUser, detailHidden >>

loadVars == << pc, activityFetch, membersFetch, activityJson, membersJson >>
dataVars == << activityFile, membersFile, activityData, membersData >>
detailVars == << timeline, memberName, detailUser, detailHidden >>

---------------------------------------------------------------------------
(* Bounds of the model *)

MaxSnapshots == 2      \* longest snapshot list of a generated activity file
MaxDays == 1           \* largest value of the time-range control

(* Program constants *)

SecMs == 1000          \* seconds to milliseconds
MinuteMs == 60000      \* milliseconds per minute
OnlineMinutes == 60    \* below: Online
TodayMinutes == 1440   \* below: Today (and "Active (24h)")
DayMs == 1000 * 60 * 60 * 24

---------------------------------------------------------------------------
(* The inputs *)

Ids == {1, 2}
NoUser == 0

\* Two wall-clock readings one millisecond apart, chosen so that the
\* classification and window boundaries fall between them.
Now0 == 3 * DayMs + 30 * MinuteMs - 1
Nows == {Now0, Now0 + 1}
Days == 0 .. MaxDays
TimeZones == {0, 60 * MinuteMs}

\* last_action_timestamp values: unknown, 60 minutes before Now0 + 1,
\* 1440 minutes before Now0 + 1.
RecentAction == (Now0 + 1 - OnlineMinutes * MinuteMs) \div SecMs
EarlierAction == (Now0 + 1 - TodayMinutes * MinuteMs) \div SecMs

Unknown == [last_action_timestamp |-> 0, last_action_relative |-> "unknown",
            status |-> "Offline"]
Recent == [last_action_timestamp |-> RecentAction,
           last_action_relative |-> "59 minutes ago", status |-> "Online"]
Earlier == [last_action_timestamp |-> EarlierAction,
            last_action_relative |-> "23 hours ago", status |-> "Idle"]

\* The records the tracker may report for a member at a poll.
EntryChoices(id) == IF id = 1 THEN {Unknown, Recent, Earlier} ELSE {Earlier}

\* Snapshot instants: exactly one day before Now0, and one second before.
PollTimes == {Now0 - DayMs, Now0 - SecMs}

MemberMaps ==
    UNION { { m \in [S -> {Unknown, Recent, Earlier}] :
                \A id \in S : m[id] \in EntryChoices(id) } : S \in SUBSET Ids }

SnapshotChoices == [timestamp : PollTimes, members : MemberMaps]

SnapshotLists == UNION { [1 .. n -> SnapshotChoices] : n \in 0 .. MaxSnapshots }

EmptyObject == << >>

ActivityFiles == { [snapshots |-> s] : s \in SnapshotLists }

Roster ==
    [id \in Ids |->
        IF id = 1
        THEN [name |-> <<"A", "l">>, level |-> 10, days_in_faction |-> 100]
        ELSE [name |-> <<"B", "o">>, level |-> 20, days_in_faction |-> 200]]

MembersFiles == { [id \in S |-> Roster[id]] : S \in SUBSET Ids }

\* The files of the page-load specification: a file without the snapshots
\* key, an empty list, one poll and two polls.
PollA == [timestamp |-> Now0 - DayMs,
          members |-> [id \in Ids |-> IF id = 1 THEN Recent ELSE Earlier]]
PollB == [timestamp |-> Now0 - SecMs, members |-> [id \in {1} |-> Earlier]]

PageActivityFiles ==
    {EmptyObject, [snapshots |-> << >>], [snapshots |-> <<PollA>>],
     [snapshots |-> <<PollA, PollB>>]}

Queries == { << >>, <<"a", "L">>, <<"z">> }

---------------------------------------------------------------------------
(* Helpers *)

Reverse(s) == [i \in 1 .. Len(s) |-> s[Len(s) + 1 - i]]

\* activityData.snapshots || []
Snapshots(data) == IF "snapshots" \in DOMAIN data THEN data.snapshots ELSE << >>

\* toLowerCase, one character at a time
LowerChar(c) ==
    CASE c = "A" -> "a"
      [] c = "B" -> "b"
      [] c = "L" -> "l"
      [] c = "O" -> "o"
      [] c = "Z" -> "z"
      [] OTHER -> c

toLowerCase(str) == [i \in 1 .. Len(str) |-> LowerChar(str[i])]

\* String.prototype.includes
includes(str, query) ==
    \E k \in 0 .. Len(str) - Len(query) :
        \A i \in 1 .. Len(query) : str[k + i] = query[i]

\* new Date(seconds * 1000).toLocaleDateString(): the local calendar day
toLocaleDateString(seconds) == (seconds * SecMs + tz) \div DayMs

\* cutoffDate.setDate(cutoffDate.getDate() - days), without a clock change
\* inside the window
CutoffDate(clock, days) == clock - days * DayMs

---------------------------------------------------------------------------
(* getActivitySummary *)

\* { timestamp: snapshot.timestamp, ...snapshot.members[userId] }
ActivityEntry(snapshot, userId) ==
    [timestamp |-> snapshot.timestamp,
     last_action_timestamp |-> snapshot.members[userId].last_action_timestamp,
     last_action_relative |-> snapshot.members[userId].last_action_relative,
     status |-> snapshot.members[userId].status]

\* Variant of BeforeCutoff: a snapshot exactly at the cutoff is skipped too
BeforeCutoffMutant(snapshot, cutoffDate) == snapshot.timestamp <= cutoffDate

\* if (new Date(snapshot.timestamp) < cutoffDate) continue
BeforeCutoff(snapshot, cutoffDate) == snapshot.timestamp < cutoffDate

RECURSIVE MemberActivity(_, _, _)
\* The loop over the snapshots that fills memberActivity
MemberActivity(snapshots, userId, cutoffDate) ==
    IF snapshots = << >> THEN << >>
    ELSE LET snapshot == Head(snapshots)
             rest == MemberActivity(Tail(snapshots), userId, cutoffDate)
         IN  IF BeforeCutoff(snapshot, cutoffDate) THEN rest
             ELSE IF userId \in DOMAIN snapshot.members
                  THEN <<ActivityEntry(snapshot, userId)>> \o rest
                  ELSE rest

\* Variant of ActiveDates: the timestamps themselves, not their dates
ActiveDatesMutant(memberActivity) ==
    { memberActivity[i].last_action_timestamp :
        i \in { j \in 1 .. Len(memberActivity) :
                  memberActivity[j].last_action_timestamp > 0 } }

\* The set activeDates
ActiveDates(memberActivity) ==
    { toLocaleDateString(memberActivity[i].last_action_timestamp) :
        i \in { j \in 1 .. Len(memberActivity) :
                  memberActivity[j].last_action_timestamp > 0 } }

\* Variant of MostRecent: the first element
MostRecentMutant(memberActivity) == memberActivity[1]

\* const mostRecent = memberActivity[memberActivity.length - 1]
MostRecent(memberActivity) == memberActivity[Len(memberActivity)]

SummaryEntry(member, memberActivity) ==
    [name |-> member.name,
     level |-> member.level,
     days_in_faction |-> member.days_in_faction,
     last_seen_timestamp |-> MostRecent(memberActivity).last_action_timestamp,
     last_seen_relative |-> MostRecent(memberActivity).last_action_relative,
     days_active |-> Cardinality(ActiveDates(memberActivity)),
     total_polls |-> Len(memberActivity)]

\* for (const userId in membersData) { ... summary[userId] = {...} }
\* (Summarize takes the two globals as arguments, so that a step that assigns
\* them and then renders reads the assigned values.)
Summarize(activity, members, days) ==
    LET snapshots == Snapshots(activity)
        cutoffDate == CutoffDate(now, days)
        kept == { userId \in DOMAIN members :
                    Len(MemberActivity(snapshots, userId, cutoffDate)) > 0 }
    IN  [userId \in kept |->
            SummaryEntry(members[userId],
                         MemberActivity(snapshots, userId, cutoffDate))]

getActivitySummary(days) == Summarize(activityData, membersData, days)

---------------------------------------------------------------------------
(* The render targets *)

NoStats == [shown |-> "initial", total |-> 0, active24h |-> 0,
            loggedDays |-> 0, lastPoll |-> 0]

\* updateStats: four dashes and 'Data last updated: Loading...'
updateStats == [shown |-> "dashes", total |-> 0, active24h |-> 0,
                loggedDays |-> 0, lastPoll |-> 0]

renderStats(sum, snapshots) ==
    LET lastPoll == snapshots[Len(snapshots)].timestamp
        active24h ==
            Cardinality({ id \in DOMAIN sum :
                now - sum[id].last_seen_timestamp * SecMs < TodayMinutes * MinuteMs })
        firstDate == snapshots[1].timestamp
        lastDate == snapshots[Len(snapshots)].timestamp
        loggedDays == ((lastDate - firstDate) \div DayMs) + 1
    IN  [shown |-> "stats", total |-> Cardinality(DOMAIN sum),
         active24h |-> active24h, loggedDays |-> loggedDays,
         lastPoll |-> lastPoll]

\* The sorted entries: descending last_seen_timestamp; the sort is stable and
\* Object.entries lists integer-like keys in ascending order
RECURSIVE SortedEntries(_, _)
SortedEntries(sum, ids) ==
    IF ids = {} THEN << >>
    ELSE LET first == CHOOSE a \in ids : \A b \in ids :
                          \/ sum[a].last_seen_timestamp > sum[b].last_seen_timestamp
                          \/ /\ sum[a].last_seen_timestamp = sum[b].last_seen_timestamp
                             /\ a <= b
         IN  <<first>> \o SortedEntries(sum, ids \ {first})

\* Variant of StatusText: the boundaries belong to the earlier state
StatusTextMutant(last_seen_timestamp) ==
    LET elapsedMs == now - last_seen_timestamp * SecMs
    IN  IF elapsedMs <= OnlineMinutes * MinuteMs THEN "Online"
        ELSE IF elapsedMs <= TodayMinutes * MinuteMs THEN "Today"
        ELSE "Offline"

\* minutesAgo = (Date.now() - last_seen_timestamp * 1000) / 60000, compared
\* with 60 and 1440: both sides are multiplied by 60000
StatusText(last_seen_timestamp) ==
    LET elapsedMs == now - last_seen_timestamp * SecMs
    IN  IF elapsedMs < OnlineMinutes * MinuteMs THEN "Online"
        ELSE IF elapsedMs < TodayMinutes * MinuteMs THEN "Today"
        ELSE "Offline"

MemberRow(userId, data) ==
    [userId |-> userId, name |-> data.name,
     last_seen_relative |-> data.last_seen_relative,
     days_active |-> data.days_active,
     statusText |-> StatusText(data.last_seen_timestamp),
     display |-> ""]

Placeholder(text) == [placeholder |-> text, rows |-> << >>]

\* innerHTML = html || 'No members found'
renderMembers(sum) ==
    LET sorted == SortedEntries(sum, DOMAIN sum)
    IN  IF sorted = << >> THEN Placeholder("No members found")
        ELSE [placeholder |-> "",
              rows |-> [i \in 1 .. Len(sorted) |->
                            MemberRow(sorted[i], sum[sorted[i]])]]

\* renderDashboard, as what it writes, reading the globals as given
RenderDashboard(activity, members) ==
    LET snapshots == Snapshots(activity)
        sum == Summarize(activity, members, timeRange')
    IN  IF Len(snapshots) = 0
        THEN /\ membersTable' = Placeholder("No data yet")
             /\ statsPanel' = updateStats
             /\ summary' = summary
        ELSE /\ summary' = sum
             /\ statsPanel' = renderStats(sum, snapshots)
             /\ membersTable' = renderMembers(sum)

---------------------------------------------------------------------------
(* showActivity *)

RECURSIVE TimelineActivity(_, _, _)
\* The loop over the snapshots that fills memberActivity
TimelineActivity(snapshots, userId, cutoffDate) ==
    IF snapshots = << >> THEN << >>
    ELSE LET snapshot == Head(snapshots)
             rest == TimelineActivity(Tail(snapshots), userId, cutoffDate)
         IN  IF snapshot.timestamp < cutoffDate THEN rest
             ELSE IF userId \in DOMAIN snapshot.members
                  THEN <<ActivityEntry(snapshot, userId)>> \o rest
                  ELSE rest

\* Variant of TimelineOrder: the list is left in snapshot order
TimelineOrderMutant(memberActivity) == memberActivity

\* memberActivity = memberActivity.reverse()
TimelineOrder(memberActivity) == Reverse(memberActivity)

\* innerHTML = html || 'No activity data'
TimelineHtml(memberActivity) ==
    IF memberActivity = << >>
    THEN [placeholder |-> "No activity data", entries |-> << >>]
    ELSE [placeholder |-> "",
          entries |-> [i \in 1 .. Len(memberActivity) |->
              [time |-> memberActivity[i].timestamp,
               relative |-> memberActivity[i].last_action_relative,
               status |-> memberActivity[i].status]]]

showActivity(userId, name) ==
    LET snapshots == Snapshots(activityData)
        cutoffDate == CutoffDate(now, timeRange)
        memberActivity ==
            TimelineOrder(TimelineActivity(snapshots, userId, cutoffDate))
    IN  /\ memberName' = name
        /\ timeline' = TimelineHtml(memberActivity)
        /\ detailUser' = userId
        /\ detailHidden' = FALSE

\* closeActivity
closeActivity == detailHidden' = TRUE

---------------------------------------------------------------------------
(* The initial states *)

TypeInit ==
    /\ now \in Nows
    /\ timeRange \in Days
    /\ searchBox = << >>
    /\ summary = << >>
    /\ membersTable = Placeholder("initial")
    /\ statsPanel = NoStats
    /\ timeline = [placeholder |-> "", entries |-> << >>]
    /\ memberName = << >>
    /\ detailUser = NoUser
    /\ detailHidden = TRUE

\* The page before DOMContentLoaded
Init ==
    /\ pc = "start"
    /\ activityFetch = "idle" /\ membersFetch = "idle"
    /\ activityJson = "idle" /\ membersJson = "idle"
    /\ activityFile \in PageActivityFiles
    /\ membersFile \in MembersFiles
    /\ activityData = EmptyObject
    /\ membersData = EmptyObject
    /\ tz \in TimeZones
    /\ TypeInit

---------------------------------------------------------------------------
(* initializeDashboard *)

\* Variant of CatchError: the dashboard is rendered from what was loaded
CatchErrorMutant ==
    /\ pc' = "failed"
    /\ timeRange' = timeRange
    /\ RenderDashboard(activityData, membersData)
    /\ UNCHANGED << dataVars, now, tz, searchBox, detailVars >>

\* The catch block
CatchError ==
    /\ pc' = "failed"
    /\ membersTable' = Placeholder("Error loading data")
    /\ UNCHANGED << dataVars, now, tz, timeRange, searchBox, summary,
                    statsPanel, detailVars >>

\* renderDashboard() at the end of the try block
FinishLoad(activity, members) ==
    /\ pc' = "done"
    /\ timeRange' = timeRange
    /\ RenderDashboard(activity, members)
    /\ UNCHANGED << activityFile, membersFile, now, tz, searchBox, detailVars >>

\* if (membersResponse.ok) ... else ... ; renderDashboard()
MembersBranch(membersOk, activity) ==
    IF membersOk
    THEN /\ pc' = "awaitMembersJson"
         /\ membersJson' = "pending"
         /\ activityData' = activity
         /\ UNCHANGED << activityFile, membersFile, membersData, now, tz,
                         timeRange, searchBox, summary, membersTable,
                         statsPanel, detailVars >>
    ELSE /\ membersJson' = membersJson
         /\ activityData' = activity
         /\ membersData' = membersData
         /\ FinishLoad(activity, membersData)

\* Variant of StartLoad: both fetches are issued at once
StartLoadMutant ==
    /\ pc = "start"
    /\ pc' = "awaitActivityFetch"
    /\ activityFetch' = "pending"
    /\ membersFetch' = "pending"
    /\ UNCHANGED << activityJson, membersJson, dataVars, now, tz, timeRange,
                    searchBox, summary, membersTable, statsPanel, detailVars >>

\* DOMContentLoaded: fetch('data/activity.json') is issued and awaited
StartLoad ==
    /\ pc = "start"
    /\ pc' = "awaitActivityFetch"
    /\ activityFetch' = "pending"
    /\ UNCHANGED << membersFetch, activityJson, membersJson, dataVars, now, tz,
                    timeRange, searchBox, summary, membersTable, statsPanel,
                    detailVars >>

\* The activity fetch resolves: fetch('data/members.json') is issued and awaited
ActivityFetchResolves ==
    /\ pc = "awaitActivityFetch"
    /\ \E ok \in BOOLEAN : activityFetch' = IF ok THEN "ok" ELSE "notok"
    /\ membersFetch' = "pending"
    /\ pc' = "awaitMembersFetch"
    /\ UNCHANGED << activityJson, membersJson, dataVars, now, tz, timeRange,
                    searchBox, summary, membersTable, statsPanel, detailVars >>

ActivityFetchRejects ==
    /\ pc = "awaitActivityFetch"
    /\ activityFetch' = "threw"
    /\ UNCHANGED << membersFetch, activityJson, membersJson >>
    /\ CatchError

\* Variant of MembersFetchResolves: a non-OK activity response is an error
MembersFetchResolvesMutant ==
    /\ pc = "awaitMembersFetch"
    /\ \E ok \in BOOLEAN :
        /\ membersFetch' = IF ok THEN "ok" ELSE "notok"
        /\ UNCHANGED activityFetch
        /\ IF activityFetch = "ok"
           THEN /\ pc' = "awaitActivityJson"
                /\ activityJson' = "pending"
                /\ UNCHANGED << membersJson, dataVars, now, tz, timeRange,
                                searchBox, summary, membersTable, statsPanel,
                                detailVars >>
           ELSE /\ UNCHANGED << activityJson, membersJson >>
                /\ CatchError

\* The members fetch resolves: the ok tests of lines 17 and 23
MembersFetchResolves ==
    /\ pc = "awaitMembersFetch"
    /\ \E ok \in BOOLEAN :
        /\ membersFetch' = IF ok THEN "ok" ELSE "notok"
        /\ UNCHANGED activityFetch
        /\ IF activityFetch = "ok"
           THEN /\ pc' = "awaitActivityJson"
                /\ activityJson' = "pending"
                /\ UNCHANGED << membersJson, dataVars, now, tz, timeRange,
                                searchBox, summary, membersTable, statsPanel,
                                detailVars >>
           ELSE /\ activityJson' = activityJson
                /\ MembersBranch(ok, activityData)

MembersFetchRejects ==
    /\ pc = "awaitMembersFetch"
    /\ membersFetch' = "threw"
    /\ UNCHANGED << activityFetch, activityJson, membersJson >>
    /\ CatchError

\* activityData = await activityResponse.json()
ActivityJsonResolves ==
    /\ pc = "awaitActivityJson"
    /\ activityJson' = "parsed"
    /\ UNCHANGED << activityFetch, membersFetch >>
    /\ MembersBranch(membersFetch = "ok", activityFile)

ActivityJsonRejects ==
    /\ pc = "awaitActivityJson"
    /\ activityJson' = "threw"
    /\ UNCHANGED << activityFetch, membersFetch, membersJson >>
    /\ CatchError

\* membersData = await membersResponse.json(); renderDashboard()
MembersJsonResolves ==
    /\ pc = "awaitMembersJson"
    /\ membersJson' = "parsed"
    /\ membersData' = membersFile
    /\ UNCHANGED << activityFetch, membersFetch, activityJson, activityData >>
    /\ FinishLoad(activityData, membersFile)

MembersJsonRejects ==
    /\ pc = "awaitMembersJson"
    /\ membersJson' = "threw"
    /\ UNCHANGED << activityFetch, membersFetch, activityJson >>
    /\ CatchError

---------------------------------------------------------------------------
(* The user-interface handlers *)

\* The time-range control changes: updateDashboard
updateDashboard ==
    /\ \E days \in Days : timeRange' = days
    /\ RenderDashboard(activityData, membersData)
    /\ UNCHANGED << loadVars, dataVars, now, tz, searchBox, detailVars >>

\* row.style.display = name.includes(query) ? '' : 'none'
FilteredRow(row, query) ==
    [row EXCEPT !.display =
        IF includes(toLowerCase(row.name), query) THEN "" ELSE "none"]

\* Input in the search box: filterMembers
filterMembers ==
    /\ \E text \in Queries : searchBox' = text
    /\ membersTable' =
         [membersTable EXCEPT !.rows =
            [i \in 1 .. Len(membersTable.rows) |->
                FilteredRow(membersTable.rows[i], toLowerCase(searchBox'))]]
    /\ UNCHANGED << loadVars, dataVars, now, tz, timeRange, summary,
                    statsPanel, detailVars >>

\* A click on the View link of a displayed row
ClickView ==
    /\ \E i \in 1 .. Len(membersTable.rows) :
        /\ membersTable.rows[i].display = ""
        /\ showActivity(membersTable.rows[i].userId, membersTable.rows[i].name)
    /\ UNCHANGED << loadVars, dataVars, now, tz, timeRange, searchBox,
                    summary, membersTable, statsPanel >>

\* The close control of the detail panel
CloseClick ==
    /\ closeActivity
    /\ UNCHANGED << loadVars, dataVars, now, tz, timeRange, searchBox,
                    summary, membersTable, statsPanel, timeline, memberName,
                    detailUser >>

\* keydown with event.key === 'Escape'
EscapeKey ==
    /\ closeActivity
    /\ UNCHANGED << loadVars, dataVars, now, tz, timeRange, searchBox,
                    summary, membersTable, statsPanel, timeline, memberName,
                    detailUser >>

\* The wall clock advances
Tick ==
    /\ now + 1 \in Nows
    /\ now' = now + 1
    /\ UNCHANGED << loadVars, dataVars, tz, timeRange, searchBox, summary,
                    membersTable, statsPanel, detailVars >>

Next ==
    \/ StartLoad
    \/ ActivityFetchResolves
    \/ ActivityFetchRejects
    \/ MembersFetchResolves
    \/ MembersFetchRejects
    \/ ActivityJsonResolves
    \/ ActivityJsonRejects
    \/ MembersJsonResolves
    \/ MembersJsonRejects
    \/ updateDashboard
    \/ filterMembers
    \/ ClickView
    \/ CloseClick
    \/ EscapeKey
    \/ Tick

Spec == Init /\ [][Next]_vars

---------------------------------------------------------------------------
(* The aggregation and the timeline as functions of the loaded data: every  *)
(* generated pair of datasets is loaded, and the functions are applied.     *)

InitLoaded ==
    /\ pc = "done"
    /\ activityFetch = "ok" /\ membersFetch = "ok"
    /\ activityJson = "parsed" /\ membersJson = "parsed"
    /\ activityFile \in ActivityFiles
    /\ membersFile \in MembersFiles
    /\ activityData = activityFile
    /\ membersData = membersFile
    /\ tz \in TimeZones
    /\ TypeInit

\* renderDashboard() on the loaded data
ApplySummary ==
    /\ membersTable.placeholder = "initial"
    /\ detailUser = NoUser
    /\ timeRange' = timeRange
    /\ RenderDashboard(activityData, membersData)
    /\ UNCHANGED << loadVars, dataVars, now, tz, searchBox, detailVars >>

\* showActivity(userId, name) for any userId
ApplyTimeline ==
    /\ detailUser = NoUser
    /\ membersTable.placeholder = "initial"
    /\ \E userId \in Ids : showActivity(userId, Roster[userId].name)
    /\ UNCHANGED << loadVars, dataVars, now, tz, timeRange, searchBox,
                    summary, membersTable, statsPanel >>

NextLoaded == ApplySummary \/ ApplyTimeline

SpecLoaded == InitLoaded /\ [][NextLoaded]_vars

---------------------------------------------------------------------------
(* Properties of the aggregation (under SpecLoaded) *)

\* renderDashboard has run on the loaded data
Summarized == membersTable.placeholder # "initial"

\* Snapshot i is in the window: its timestamp is at or after now - timeRange days
InWindow(i) ==
    Snapshots(activityData)[i].timestamp >= now - timeRange * DayMs

\* The in-window snapshots that contain id
PollsOf(id) ==
    { i \in 1 .. Len(Snapshots(activityData)) :
        InWindow(i) /\ id \in DOMAIN Snapshots(activityData)[i].members }

\* C1: the keys of the summary are exactly the members of the metadata that
\* some in-window snapshot contains.
C1_SummaryKeys ==
    Summarized =>
        DOMAIN summary = { id \in DOMAIN membersData : PollsOf(id) # {} }

\* A summarized member, beside a member of the metadata whose only snapshot
\* is outside the window and is left out.
C1_Witness ==
    /\ Summarized
    /\ 1 \in DOMAIN summary
    /\ 2 \in DOMAIN membersData /\ 2 \notin DOMAIN summary
    /\ \E i \in 1 .. Len(Snapshots(activityData)) :
          2 \in DOMAIN Snapshots(activityData)[i].members /\ ~InWindow(i)

\* The nonzero last_action_timestamp values of id over its in-window snapshots
ActionsOf(id) ==
    { Snapshots(activityData)[i].members[id].last_action_timestamp :
        i \in PollsOf(id) } \ {0}

\* C2: total_polls counts the in-window snapshots that contain the member,
\* days_active counts the distinct local calendar days of the nonzero
\* last actions and is at most total_polls; all-zero last actions give
\* days_active = 0 with total_polls > 0.
C2_PollsAndDays ==
    Summarized =>
        \A id \in DOMAIN summary :
            /\ summary[id].total_polls = Cardinality(PollsOf(id))
            /\ summary[id].days_active =
                 Cardinality({ (t * SecMs + tz) \div DayMs : t \in ActionsOf(id) })
            /\ summary[id].days_active <= summary[id].total_polls
            /\ summary[id].days_active <= Cardinality(ActionsOf(id))
            /\ ActionsOf(id) = {} =>
                 summary[id].days_active = 0 /\ summary[id].total_polls > 0

\* Two polls with different last actions on the same calendar day
C2_Witness ==
    /\ Summarized
    /\ 1 \in DOMAIN summary
    /\ summary[1].total_polls = 2
    /\ Cardinality(ActionsOf(1)) = 2
    /\ summary[1].days_active = 1

\* The snapshots are stored strictly oldest-first
OldestFirst ==
    \A i, j \in 1 .. Len(Snapshots(activityData)) :
        i < j => Snapshots(activityData)[i].timestamp
                   < Snapshots(activityData)[j].timestamp

\* The chronologically last in-window snapshot that contains id
LastPollOf(id) ==
    CHOOSE i \in PollsOf(id) :
        \A j \in PollsOf(id) :
            Snapshots(activityData)[j].timestamp
                <= Snapshots(activityData)[i].timestamp

\* C3: with the snapshots oldest-first, last_seen_timestamp and
\* last_seen_relative are those of the chronologically last in-window
\* snapshot that contains the member.
C3_LastSeen ==
    (Summarized /\ OldestFirst) =>
        \A id \in DOMAIN summary :
            LET last == Snapshots(activityData)[LastPollOf(id)].members[id]
            IN  /\ summary[id].last_seen_timestamp = last.last_action_timestamp
                /\ summary[id].last_seen_relative = last.last_action_relative

\* Two in-window polls of member 1, oldest-first, with different records
C3_Witness ==
    /\ Summarized /\ OldestFirst
    /\ 1 \in DOMAIN summary
    /\ summary[1].total_polls = 2
    /\ Snapshots(activityData)[1].members[1] # Snapshots(activityData)[2].members[1]

\* Elapsed time of a row, in ms, since the last_seen_timestamp of its entry
ElapsedMs(row) == now - summary[row.userId].last_seen_timestamp * SecMs

\* C4: every row is Online, Today or Offline, by its elapsed minutes:
\* below 60, from 60 to below 1440, from 1440.
C4_Presence ==
    Summarized =>
        \A i \in 1 .. Len(membersTable.rows) :
            LET row == membersTable.rows[i]
            IN  /\ row.statusText \in {"Online", "Today", "Offline"}
                /\ row.statusText = "Online"
                     <=> ElapsedMs(row) < OnlineMinutes * MinuteMs
                /\ row.statusText = "Today"
                     <=> /\ ElapsedMs(row) >= OnlineMinutes * MinuteMs
                         /\ ElapsedMs(row) < TodayMinutes * MinuteMs
                /\ row.statusText = "Offline"
                     <=> ElapsedMs(row) >= TodayMinutes * MinuteMs

\* A row at exactly 60 minutes and a row at exactly 1440 minutes
C4_Witness ==
    /\ Summarized
    /\ \E i, j \in 1 .. Len(membersTable.rows) :
        /\ ElapsedMs(membersTable.rows[i]) = OnlineMinutes * MinuteMs
        /\ membersTable.rows[i].statusText = "Today"
        /\ ElapsedMs(membersTable.rows[j]) = TodayMinutes * MinuteMs
        /\ membersTable.rows[j].statusText = "Offline"

\* The k-th most recent in-window snapshot (in snapshot order) that contains id
PollFromEnd(id, k) ==
    CHOOSE i \in PollsOf(id) :
        Cardinality({ j \in PollsOf(id) : j > i }) = k - 1

\* C8: the timeline of a member lists its in-window snapshots in reverse
\* snapshot order; it has total_polls entries, starts with the snapshot the
\* summary took last_seen from, and is the placeholder exactly when the
\* member has no in-window snapshot.
C8_Timeline ==
    detailUser # NoUser =>
        LET id == detailUser
            sum == getActivitySummary(timeRange)
            snapshots == Snapshots(activityData)
        IN  /\ Len(timeline.entries) = Cardinality(PollsOf(id))
            /\ \A k \in 1 .. Len(timeline.entries) :
                 LET poll == snapshots[PollFromEnd(id, k)]
                 IN  timeline.entries[k] =
                        [time |-> poll.timestamp,
                         relative |-> poll.members[id].last_action_relative,
                         status |-> poll.members[id].status]
            /\ timeline.placeholder = "No activity data" <=> PollsOf(id) = {}
            /\ id \in DOMAIN sum =>
                 /\ Len(timeline.entries) = sum[id].total_polls
                 /\ timeline.entries[1].relative = sum[id].last_seen_relative
                 /\ timeline.entries[1].time =
                      MostRecent(MemberActivity(snapshots, id,
                                     CutoffDate(now, timeRange))).timestamp

\* A timeline of two different entries for a summarized member
C8_Witness ==
    /\ detailUser = 1
    /\ 1 \in DOMAIN getActivitySummary(timeRange)
    /\ Len(timeline.entries) = 2
    /\ timeline.entries[1] # timeline.entries[2]

---------------------------------------------------------------------------
(* Properties of the page load and of the handlers (under Spec) *)

ErrorShown == membersTable = Placeholder("Error loading data")

Retrievals == << activityFetch, membersFetch, activityJson, membersJson >>

\* The retrievals that threw
Thrown == { i \in 1 .. 4 : Retrievals[i] = "threw" }

\* C5, as stated: the members fetch is issued while the activity fetch is
\* still outstanding.
C5_FetchesConcurrent ==
    [][(membersFetch = "idle" /\ membersFetch' = "pending")
          => activityFetch' = "pending"]_vars

\* C5, amended: the fetches are issued one after the other, the members
\* fetch only once the activity fetch has resolved, so the two are never
\* outstanding together; the load renders only after both have resolved.
C5_FetchesSequential ==
    /\ membersFetch # "idle" => activityFetch \in {"ok", "notok"}
    /\ ~(activityFetch = "pending" /\ membersFetch = "pending")
    /\ pc = "done" =>
         /\ activityFetch \in {"ok", "notok"}
         /\ membersFetch \in {"ok", "notok"}
         /\ activityJson # "pending" /\ membersJson # "pending"

\* The members fetch is outstanding, the activity fetch has resolved
C5_Witness == membersFetch = "pending" /\ activityFetch = "ok"

\* C6: a retrieval that throws is caught: the load fails, the member table
\* becomes the error placeholder, and nothing else is rendered in that step;
\* at most one retrieval throws, and a failed load takes no further step
\* (its renderDashboard never runs).
C6_ThrowAborts ==
    [][/\ (Thrown = {} /\ Thrown' # {}) =>
            /\ pc' = "failed"
            /\ ErrorShown'
            /\ UNCHANGED << statsPanel, summary, dataVars, detailVars >>
       /\ Cardinality(Thrown') <= 1
       /\ (pc' = "failed") <=> (Thrown' # {})
       /\ pc = "failed" => UNCHANGED loadVars
       /\ pc' = "done" => Thrown' = {}]_vars

\* The members body fails to parse after the activity dataset was assigned
C6_Witness ==
    /\ pc = "failed"
    /\ membersJson = "threw"
    /\ Len(Snapshots(activityData)) > 0
    /\ ErrorShown
    /\ statsPanel = NoStats

\* C7: a non-OK response alone never fails the load: the missing dataset
\* stays at its empty default, the other one is loaded, and the dashboard is
\* rendered; a non-OK activity response gives the 'No data yet' table and
\* the dash placeholders.
C7_NonOkDegrades ==
    /\ pc = "failed" => Thrown # {}
    /\ pc = "done" =>
         /\ ~ErrorShown
         /\ membersTable.placeholder # "initial"
         /\ activityFetch = "notok" =>
              /\ activityData = EmptyObject
              /\ membersTable = Placeholder("No data yet")
              /\ statsPanel = updateStats
              /\ summary = << >>
         /\ activityFetch = "ok" => activityData = activityFile
         /\ membersFetch = "notok" => membersData = EmptyObject
         /\ membersFetch = "ok" => membersData = membersFile

\* Activity non-OK, members loaded with both members, dashboard rendered
C7_Witness ==
    /\ pc = "done"
    /\ activityFetch = "notok" /\ membersFetch = "ok"
    /\ DOMAIN membersData = Ids
    /\ membersTable = Placeholder("No data yet")

\* Every rendered row is displayed exactly when its name contains the text
\* of the search box, case-insensitively
RowsMatchSearch ==
    \A i \in 1 .. Len(membersTable.rows) :
        membersTable.rows[i].display = ""
            <=> includes(toLowerCase(membersTable.rows[i].name),
                         toLowerCase(searchBox))

\* C9: after a successful load, every search input and time-range change
\* leaves each rendered row visible exactly when its name contains the
\* search text (stated for a table that shows rows, all of which agree with
\* the search text before the step).
C9_VisibleIffMatches ==
    [][(pc = "done" /\ Len(membersTable.rows) > 0 /\ RowsMatchSearch)
          => RowsMatchSearch']_vars

\* C10: once the load has failed and the error placeholder is shown, no
\* later step replaces it or renders the stats panel.
C10_ErrorPersists ==
    [][(pc = "failed" /\ ErrorShown)
          => (ErrorShown' /\ statsPanel' = statsPanel)]_vars

=============================================================================
